---- MODULE Spec2Model ----
(***************************************************************************)
(* Model of src/src/x509.rs: the Version and CertificateSerialNumber       *)
(* ASN.1 codecs (ToASN1 / FromASN1 implementations) and a caller that      *)
(* encodes a value or receives a block sequence and then decodes it block  *)
(* by block on the shrinking tail.                                         *)
(*                                                                         *)
(* Numbers.  An i64 is its machine word: 8 bytes, big-endian, two's        *)
(* complement.  A BigInt is what num's BigInt is: a sign and a magnitude,  *)
(* the magnitude written here as big-endian base-256 digits without        *)
(* leading zeros.  Nothing is stored as a TLA+ integer wider than a byte,  *)
(* so the full 64-bit range (and values beyond it) is represented exactly. *)
(***************************************************************************)
EXTENDS Integers, Sequences, FiniteSets, TLC

VARIABLES
    pc,       \* where the caller is
    target,   \* the type the caller encodes or decodes
    src,      \* the typed value handed to an encoder, if any
    cls,      \* the class argument handed to to_asn1_class
    enc,      \* what the encoder returned
    input,    \* the block sequence the caller holds
    arg,      \* the slice handed to the latest from_asn1 call
    rest,     \* the slice still to decode
    decoded,  \* the values decoded so far, in order
    ret,      \* outcome of the latest from_asn1 call
    der       \* bytes produced by der_encode

vars == <<pc, target, src, cls, enc, input, arg, rest, decoded, ret, der>>

\* ------------------------------------------------------------------ bounds
\* longest block sequence the caller receives from the wire
MaxBlocks == 3
\* longest sign-extended content from which an i64 sample is built
MaxContentLen == 2

\* --------------------------------------------------------- byte arithmetic
Byte == 0..255

RECURSIVE Strip(_)
\* drop leading zero digits of a magnitude
Strip(bs) ==
    IF bs = <<>> THEN <<>>
    ELSE IF bs[1] = 0 THEN Strip(Tail(bs)) ELSE bs

RECURSIVE Inc(_)
\* add one to a big-endian word, wrapping at its width
Inc(bs) ==
    IF bs = <<>> THEN <<>>
    ELSE LET n == Len(bs) IN
         IF bs[n] = 255 THEN Inc(SubSeq(bs, 1, n - 1)) \o <<0>>
         ELSE SubSeq(bs, 1, n - 1) \o <<bs[n] + 1>>

Not(bs) == [i \in 1..Len(bs) |-> 255 - bs[i]]

\* two's complement negation of a word, wrapping at its width
Neg(bs) == Inc(Not(bs))

\* pad a magnitude of at most 8 digits to a u64 word
PadTo8(bs) == [i \in 1..(8 - Len(bs)) |-> 0] \o bs

\* sign-extend two's complement content of at most 8 bytes to an i64 word
SignExtend(bs) ==
    [i \in 1..(8 - Len(bs)) |-> IF bs[1] >= 128 THEN 255 ELSE 0] \o bs

I64_MIN == <<128, 0, 0, 0, 0, 0, 0, 0>>
I64_MAX == <<127, 255, 255, 255, 255, 255, 255, 255>>
I64_ZERO == <<0, 0, 0, 0, 0, 0, 0, 0>>

\* ------------------------------------------------------------------ BigInt
Zero == [sign |-> "NoSign", mag |-> <<>>]

\* BigInt::from(val) for the small non-negative literals 0, 1, 2
BigInt_from_small(n) ==
    IF n = 0 THEN Zero ELSE [sign |-> "Plus", mag |-> <<n>>]

\* BigInt::from(self.0) for an i64
BigInt_from_i64(w) ==
    IF w[1] >= 128 THEN [sign |-> "Minus", mag |-> Strip(Neg(w))]
    ELSE IF Strip(w) = <<>> THEN Zero
    ELSE [sign |-> "Plus", mag |-> Strip(w)]

\* BigInt::to_i64 without the special case for the magnitude 2^63
BigInt_to_i64_NoMin(b) ==
    IF b.sign = "NoSign" THEN [some |-> TRUE, val |-> I64_ZERO]
    ELSE IF Len(b.mag) > 8 THEN [some |-> FALSE]
    ELSE LET u == PadTo8(b.mag) IN
         IF u[1] >= 128 THEN [some |-> FALSE]
         ELSE IF b.sign = "Plus" THEN [some |-> TRUE, val |-> u]
         ELSE [some |-> TRUE, val |-> Neg(u)]

\* BigInt::to_i64(val): Some(word) when the value fits, None otherwise
BigInt_to_i64(b) ==
    IF b.sign = "NoSign" THEN [some |-> TRUE, val |-> I64_ZERO]
    ELSE IF Len(b.mag) > 8 THEN [some |-> FALSE]
    ELSE LET u == PadTo8(b.mag) IN
         IF b.sign = "Plus"
         THEN IF u[1] < 128 THEN [some |-> TRUE, val |-> u]
              ELSE [some |-> FALSE]
         ELSE IF u[1] < 128 THEN [some |-> TRUE, val |-> Neg(u)]
              ELSE IF u = I64_MIN THEN [some |-> TRUE, val |-> I64_MIN]
              ELSE [some |-> FALSE]

\* magnitude order: shorter is smaller, equal lengths compare digit by digit
MagLess(a, b) ==
    \/ Len(a) < Len(b)
    \/ /\ Len(a) = Len(b)
       /\ \E i \in 1..Len(a) :
             /\ a[i] < b[i]
             /\ \A j \in 1..(i - 1) : a[j] = b[j]

SignRank(s) == IF s = "Minus" THEN 0 ELSE IF s = "NoSign" THEN 1 ELSE 2

\* val < other on BigInt
BigIntLess(a, b) ==
    \/ SignRank(a.sign) < SignRank(b.sign)
    \/ /\ a.sign = b.sign
       /\ \/ a.sign = "Plus" /\ MagLess(a.mag, b.mag)
          \/ a.sign = "Minus" /\ MagLess(b.mag, a.mag)

\* ------------------------------------------------------------------ blocks
ASN1Class == {"Universal", "Application", "ContextSpecific", "Private"}

\* ASN1Block::Integer(class, offset, value)
Integer(class, off, val) ==
    [kind |-> "Integer", class |-> class, off |-> off, val |-> val]

\* a block of another kind (Null, Sequence, ...); it carries no integer
Other(kind, class, off) ==
    [kind |-> kind, class |-> class, off |-> off, val |-> Zero]

\* the one decode error the code ever returns
UTF8DecodeFailure == "UTF8DecodeFailure"

Ok(val, tail) == [tag |-> "Ok", val |-> val, tail |-> tail]
Err(e) == [tag |-> "Err", err |-> e]
\* the call does not return: the thread unwinds
Panic == [tag |-> "Panic"]

\* ----------------------------------------------------------------- Version
Version == {"V1", "V2", "V3"}

\* the encoder numbering the versions from 1
Version_to_asn1_class_OneBased(self, c) ==
    LET val == CASE self = "V1" -> 1
                 [] self = "V2" -> 2
                 [] self = "V3" -> 3
    IN [ok |-> TRUE,
        blocks |-> <<Integer("Universal", 0, BigInt_from_small(val))>>]

\* the encoder using its class argument instead of ignoring it
Version_to_asn1_class_UsesClass(self, c) ==
    LET val == CASE self = "V1" -> 0
                 [] self = "V2" -> 1
                 [] self = "V3" -> 2
    IN [ok |-> TRUE, blocks |-> <<Integer(c, 0, BigInt_from_small(val))>>]

Version_to_asn1_class(self, c) ==
    LET val == CASE self = "V1" -> 0
                 [] self = "V2" -> 1
                 [] self = "V3" -> 2
    IN [ok |-> TRUE,
        blocks |-> <<Integer("Universal", 0, BigInt_from_small(val))>>]

\* the decoder handing back its whole input as the tail
Version_from_asn1_NoAdvance(v) ==
    IF Len(v) < 1 THEN Panic
    ELSE LET head == v[1]
             tail == v
         IN IF head.kind = "Integer"
            THEN IF head.class = "Universal"
                 THEN IF \/ BigIntLess(head.val, BigInt_from_small(0))
                         \/ BigIntLess(BigInt_from_small(2), head.val)
                      THEN Err(UTF8DecodeFailure)
                      ELSE IF head.val = BigInt_from_small(0)
                           THEN Ok("V1", tail)
                      ELSE IF head.val = BigInt_from_small(1)
                           THEN Ok("V2", tail)
                      ELSE Ok("V3", tail)
                 ELSE Err(UTF8DecodeFailure)
            ELSE Err(UTF8DecodeFailure)

Version_from_asn1(v) ==
    IF Len(v) < 1 THEN Panic          \* split_at(1): mid > len
    ELSE LET head == v[1]
             tail == Tail(v)
         IN IF head.kind = "Integer"
            THEN IF head.class = "Universal"
                 THEN IF \/ BigIntLess(head.val, BigInt_from_small(0))
                         \/ BigIntLess(BigInt_from_small(2), head.val)
                      THEN Err(UTF8DecodeFailure)
                      ELSE IF head.val = BigInt_from_small(0)
                           THEN Ok("V1", tail)
                      ELSE IF head.val = BigInt_from_small(1)
                           THEN Ok("V2", tail)
                      ELSE Ok("V3", tail)
                 ELSE Err(UTF8DecodeFailure)
            ELSE Err(UTF8DecodeFailure)

\* --------------------------------------------------- CertificateSerialNumber
\* the encoder converting the word as if it were unsigned (self.0 as u64)
CertificateSerialNumber_to_asn1_class_Unsigned(self, c) ==
    [ok |-> TRUE,
     blocks |-> <<Integer("Universal", 0,
                          IF Strip(self) = <<>> THEN Zero
                          ELSE [sign |-> "Plus", mag |-> Strip(self)])>>]

CertificateSerialNumber_to_asn1_class(self, c) ==
    [ok |-> TRUE,
     blocks |-> <<Integer("Universal", 0, BigInt_from_i64(self))>>]

\* the decoder reading the last block of its input instead of the first
CertificateSerialNumber_from_asn1_LastBlock(v) ==
    IF Len(v) < 1 THEN Panic
    ELSE LET head == v[Len(v)]
             tail == Tail(v)
         IN IF head.kind = "Integer"
            THEN IF head.class = "Universal"
                 THEN LET o == BigInt_to_i64(head.val) IN
                      IF o.some THEN Ok(o.val, tail)
                      ELSE Panic
                 ELSE Err(UTF8DecodeFailure)
            ELSE Err(UTF8DecodeFailure)

CertificateSerialNumber_from_asn1(v) ==
    IF Len(v) < 1 THEN Panic          \* split_at(1): mid > len
    ELSE LET head == v[1]
             tail == Tail(v)
         IN IF head.kind = "Integer"
            THEN IF head.class = "Universal"
                 THEN LET o == BigInt_to_i64(head.val) IN
                      IF o.some THEN Ok(o.val, tail)
                      ELSE Panic      \* unwrap() on None
                 ELSE Err(UTF8DecodeFailure)
            ELSE Err(UTF8DecodeFailure)

\* ------------------------------------------------------- DER serialisation
\* content octets of an INTEGER: shortest big-endian two's complement
ContentBytes(b) ==
    IF b.sign = "NoSign" THEN <<0>>
    ELSE IF b.sign = "Plus"
         THEN IF b.mag[1] >= 128 THEN <<0>> \o b.mag ELSE b.mag
         ELSE LET t == Neg(b.mag) IN
              IF t[1] >= 128 THEN t ELSE <<255>> \o t

\* tag 0x02, short-form length, content
IntegerToDer(blk) ==
    LET body == ContentBytes(blk.val) IN <<2, Len(body)>> \o body

\* der_encode(&value): to_asn1_class(Universal) and then each block's TLV
DerEncodeBlocks(r) == IntegerToDer(r.blocks[1])

\* ------------------------------------------------------------ input spaces
ByteSamples == {0, 1, 42, 127, 128, 214, 255}
EdgeBytes == {0, 127, 128, 255}

ContentSeqs == UNION {[1..n -> ByteSamples] : n \in 1..MaxContentLen}

\* the serial numbers the caller encodes: every sign-extended short content
\* and the full-width words around i64::MIN, i64::MAX, 0 and -1
I64Samples ==
    {SignExtend(bs) : bs \in ContentSeqs}
    \cup {<<a, b, b, b, b, b, b, c>> : a \in EdgeBytes, b \in EdgeBytes,
                                       c \in {0, 1, 255}}

Two63 == [sign |-> "Plus", mag |-> I64_MIN]
Two64 == [sign |-> "Plus", mag |-> <<1, 0, 0, 0, 0, 0, 0, 0, 0>>]
BelowMin == [sign |-> "Minus", mag |-> <<128, 0, 0, 0, 0, 0, 0, 1>>]

\* integer values that arrive from the wire, inside and outside the i64 range
WireInts ==
    {BigInt_from_small(0), BigInt_from_small(1), BigInt_from_small(2),
     BigInt_from_small(3), [sign |-> "Minus", mag |-> <<1>>],
     [sign |-> "Plus", mag |-> I64_MAX], [sign |-> "Minus", mag |-> I64_MIN],
     Two63, BelowMin, Two64}

WireBlocks ==
    {Integer("Universal", 0, n) : n \in WireInts}
    \cup {Integer("ContextSpecific", 3, n) :
             n \in {BigInt_from_small(1), BigInt_from_small(3), Two63}}
    \cup {Integer("Private", 0, BigInt_from_small(2)),
          Other("Null", "Universal", 6)}

WireSeqs == UNION {[1..n -> WireBlocks] : n \in 0..MaxBlocks}

NoRet == [tag |-> "None"]
NoValue == [some |-> FALSE]
Some(x) == [some |-> TRUE, val |-> x]

\* ------------------------------------------------------------------ caller
Init ==
    /\ pc = "start"
    /\ target = "none"
    /\ src = NoValue
    /\ cls = "none"
    /\ enc = NoValue
    /\ input = <<>>
    /\ arg = <<>>
    /\ rest = <<>>
    /\ decoded = <<>>
    /\ ret = NoRet
    /\ der = <<>>

\* version.to_asn1_class(c): the caller keeps the blocks it got back
EncodeVersion(v, c) ==
    /\ pc = "start"
    /\ LET r == Version_to_asn1_class(v, c) IN
         /\ enc' = Some(r)
         /\ input' = r.blocks
         /\ rest' = r.blocks
    /\ target' = "Version"
    /\ src' = Some(v)
    /\ cls' = c
    /\ pc' = "ready"
    /\ UNCHANGED <<arg, decoded, ret, der>>

\* serial.to_asn1_class(c)
EncodeSerial(s, c) ==
    /\ pc = "start"
    /\ LET r == CertificateSerialNumber_to_asn1_class(s, c) IN
         /\ enc' = Some(r)
         /\ input' = r.blocks
         /\ rest' = r.blocks
    /\ target' = "Serial"
    /\ src' = Some(s)
    /\ cls' = c
    /\ pc' = "ready"
    /\ UNCHANGED <<arg, decoded, ret, der>>

\* der_encode(&version)
DerEncodeVersion(v) ==
    /\ pc = "start"
    /\ LET r == Version_to_asn1_class(v, "Universal") IN
         /\ enc' = Some(r)
         /\ input' = r.blocks
         /\ der' = DerEncodeBlocks(r)
    /\ target' = "Version"
    /\ src' = Some(v)
    /\ cls' = "Universal"
    /\ pc' = "encoded"
    /\ UNCHANGED <<arg, rest, decoded, ret>>

\* der_encode(&serial)
DerEncodeSerial(s) ==
    /\ pc = "start"
    /\ LET r == CertificateSerialNumber_to_asn1_class(s, "Universal") IN
         /\ enc' = Some(r)
         /\ input' = r.blocks
         /\ der' = DerEncodeBlocks(r)
    /\ target' = "Serial"
    /\ src' = Some(s)
    /\ cls' = "Universal"
    /\ pc' = "encoded"
    /\ UNCHANGED <<arg, rest, decoded, ret>>

\* the caller holds blocks parsed from the wire and picks the type to decode
Receive(bs, t) ==
    /\ pc = "start"
    /\ input' = bs
    /\ rest' = bs
    /\ target' = t
    /\ pc' = "ready"
    /\ UNCHANGED <<src, cls, enc, arg, decoded, ret, der>>

\* one call of a decoder on the current slice
Step(r) ==
    /\ arg' = rest
    /\ ret' = r
    /\ IF r.tag = "Ok"
       THEN /\ decoded' = Append(decoded, r.val)
            /\ rest' = r.tail
            /\ pc' = "ready"
       ELSE /\ pc' = IF r.tag = "Err" THEN "failed" ELSE "aborted"
            /\ UNCHANGED <<decoded, rest>>
    /\ UNCHANGED <<target, src, cls, enc, input, der>>

\* Version::from_asn1(rest)
DecodeVersion ==
    /\ pc = "ready"
    /\ target = "Version"
    /\ Step(Version_from_asn1(rest))

\* CertificateSerialNumber::from_asn1(rest)
DecodeSerial ==
    /\ pc = "ready"
    /\ target = "Serial"
    /\ Step(CertificateSerialNumber_from_asn1(rest))

\* the caller stops once nothing is left to decode
Finish ==
    /\ pc = "ready"
    /\ rest = <<>>
    /\ pc' = "done"
    /\ UNCHANGED <<target, src, cls, enc, input, arg, rest, decoded, ret, der>>

Next ==
    \/ /\ pc = "start"
       /\ \/ \E v \in Version, c \in ASN1Class : EncodeVersion(v, c)
          \/ \E s \in I64Samples, c \in ASN1Class : EncodeSerial(s, c)
          \/ \E v \in Version : DerEncodeVersion(v)
          \/ \E s \in I64Samples : DerEncodeSerial(s)
          \/ \E bs \in WireSeqs, t \in {"Version", "Serial"} : Receive(bs, t)
    \/ DecodeVersion
    \/ DecodeSerial
    \/ Finish

Spec == Init /\ [][Next]_vars

TypeOK ==
    /\ pc \in {"start", "ready", "encoded", "failed", "aborted", "done"}
    /\ target \in {"none", "Version", "Serial"}
    /\ ret.tag \in {"None", "Ok", "Err", "Panic"}
    /\ Len(input) <= MaxBlocks
    /\ src.some = enc.some

\* ------------------------------------------------------- shared vocabulary
\* a from_asn1 call has been made
Called == ret.tag # "None"

\* the latest call was the first one, made on everything the caller held
FirstCall == Called /\ arg = input

IsUniversalInteger(b) == b.kind = "Integer" /\ b.class = "Universal"

\* the sequence without its first element, written out index by index
AllButFirst(q) == [i \in 1..(Len(q) - 1) |-> q[i + 1]]

RECURSIVE AddC(_, _, _)
\* sum of two words of equal width with carry-in, wrapping at the width
AddC(a, b, c) ==
    IF a = <<>> THEN <<>>
    ELSE LET n == Len(a)
             t == a[n] + b[n] + c
         IN AddC(SubSeq(a, 1, n - 1), SubSeq(b, 1, n - 1), t \div 256)
            \o <<t % 256>>

\* the BigInt b and the i64 word w are the same integer
Denotes(b, w) ==
    /\ b.mag = <<>> \/ b.mag[1] # 0
    /\ Len(b.mag) <= 8
    /\ (b.sign = "NoSign") <=> (b.mag = <<>>)
    /\ IF w[1] < 128
       THEN b.sign # "Minus" /\ PadTo8(b.mag) = w
       ELSE b.sign = "Minus" /\ AddC(PadTo8(b.mag), w, 0) = I64_ZERO

\* the integer each Version stands for on the wire
WireValue(v) ==
    CASE v = "V1" -> Zero
      [] v = "V2" -> [sign |-> "Plus", mag |-> <<1>>]
      [] v = "V3" -> [sign |-> "Plus", mag |-> <<2>>]

\* the value lies outside the 64-bit signed range
OutOfI64Range(b) ==
    \/ BigIntLess(b, [sign |-> "Minus", mag |-> I64_MIN])
    \/ BigIntLess([sign |-> "Plus", mag |-> I64_MAX], b)

\* ------------------------------------------------------------------ claims

\* C1: decoding the blocks that encoding a Version v produced succeeds and
\* returns exactly v with an empty tail.
C1_VersionRoundTrip ==
    (target = "Version" /\ src.some /\ pc # "encoded" /\ FirstCall)
        => ret = Ok(src.val, <<>>)

C1_Witness ==
    target = "Version" /\ src.some /\ FirstCall /\ ret = Ok("V3", <<>>)

\* C2: decoding the blocks that encoding a serial number s produced succeeds
\* and returns exactly s with an empty tail, i64::MIN and i64::MAX included.
C2_SerialRoundTrip ==
    (target = "Serial" /\ src.some /\ pc # "encoded" /\ FirstCall)
        => ret = Ok(src.val, <<>>)

C2_Witness ==
    target = "Serial" /\ src.some /\ FirstCall /\ ret = Ok(I64_MIN, <<>>)

\* C3: serial-number decode of a Universal INTEGER whose value is outside
\* the 64-bit signed range returns an error to the caller; it neither
\* aborts nor yields a value.
C3_OutOfRangeIsAnError ==
    (/\ target = "Serial"
     /\ Called
     /\ arg # <<>>
     /\ IsUniversalInteger(arg[1])
     /\ OutOfI64Range(arg[1].val))
        => ret.tag = "Err"

\* C4: Version decode of a Universal INTEGER maps 0, 1, 2 to V1, V2, V3 and
\* fails with UnsupportedVersion for every other value.
C4_UnsupportedVersionError ==
    (target = "Version" /\ Called /\ arg # <<>> /\ IsUniversalInteger(arg[1]))
        => IF \E v \in Version : arg[1].val = WireValue(v)
           THEN \E v \in Version :
                   arg[1].val = WireValue(v) /\ ret = Ok(v, AllButFirst(arg))
           ELSE ret = Err("UnsupportedVersion")

\* C5: on a sequence of n >= 1 Universal INTEGER blocks with values in
\* {0,1,2}, repeated Version decode on the returned tail never fails, yields
\* the corresponding Versions in order, and after the n-th call the tail is
\* empty.
C5_StreamContinuation ==
    (/\ target = "Version"
     /\ pc # "encoded"
     /\ input # <<>>
     /\ \A i \in 1..Len(input) :
           /\ IsUniversalInteger(input[i])
           /\ \E v \in Version : input[i].val = WireValue(v))
        => /\ pc # "failed"
           /\ pc = "aborted" => arg = <<>>
           /\ Len(decoded) <= Len(input)
           /\ \A i \in 1..Len(decoded) : input[i].val = WireValue(decoded[i])
           /\ rest = SubSeq(input, Len(decoded) + 1, Len(input))
           /\ Len(decoded) = Len(input) => rest = <<>>
           /\ (Called /\ arg # <<>>) =>
                 /\ ret.tag = "Ok"
                 /\ ret.val = decoded[Len(decoded)]
                 /\ ret.tail = rest

C5_Witness ==
    /\ target = "Version"
    /\ ~src.some
    /\ Len(input) = 3
    /\ \A i \in 1..3 : IsUniversalInteger(input[i])
    /\ decoded = <<"V1", "V2", "V3">>
    /\ rest = <<>>
    /\ pc = "done"

\* C6: a first block that is not a Universal INTEGER fails with an error,
\* and that error differs from the one Version decode gives for a Universal
\* INTEGER outside {0,1,2}, so a caller can tell the two apart.
C6_EncodingErrorIsDistinct ==
    (Called /\ arg # <<>> /\ ~IsUniversalInteger(arg[1]))
        => /\ ret.tag = "Err"
           /\ ret # Version_from_asn1(
                       <<Integer("Universal", 0, BigInt_from_small(3))>>)

\* C7: the DER bytes of a serial number s are tag 0x02, a one-byte length,
\* and the shortest big-endian two's complement content of s: 1 to 8 bytes
\* that sign-extend to s, with no redundant leading 0x00 or 0xFF.
C7_MinimalTwosComplement ==
    (pc = "encoded" /\ target = "Serial")
        => LET content == SubSeq(der, 3, Len(der)) IN
           /\ Len(der) >= 3
           /\ der[1] = 2
           /\ der[2] = Len(content)
           /\ Len(content) >= 1 /\ Len(content) <= 8
           /\ \A i \in 1..Len(content) : content[i] \in Byte
           /\ SignExtend(content) = src.val
           /\ Len(content) >= 2 =>
                 /\ ~(content[1] = 0 /\ content[2] < 128)
                 /\ ~(content[1] = 255 /\ content[2] >= 128)
           /\ src.val = I64_ZERO => der = <<2, 1, 0>>
           /\ src.val = <<255, 255, 255, 255, 255, 255, 255, 255>>
                 => der = <<2, 1, 255>>
           /\ src.val = <<0, 0, 0, 0, 0, 0, 0, 42>> => der = <<2, 1, 42>>
           /\ src.val = <<255, 255, 255, 255, 255, 255, 255, 214>>
                 => der = <<2, 1, 214>>
           /\ src.val = I64_MAX => der = <<2, 8>> \o I64_MAX
           /\ src.val = I64_MIN => der = <<2, 8>> \o I64_MIN

C7_Witness ==
    /\ pc = "encoded"
    /\ target = "Serial"
    /\ src.val = <<255, 255, 255, 255, 255, 255, 255, 214>>
    /\ der = <<2, 1, 214>>

\* C8: encoding always succeeds with exactly one Universal INTEGER block that
\* carries 0, 1, 2 for V1, V2, V3 and s for a serial number s, whatever class
\* argument was passed.
C8_EncodeTotalOneBlock ==
    (src.some /\ pc # "encoded")
        => /\ enc.some
           /\ enc.val.ok
           /\ Len(enc.val.blocks) = 1
           /\ input = enc.val.blocks
           /\ IsUniversalInteger(enc.val.blocks[1])
           /\ IF target = "Version"
              THEN /\ enc.val.blocks[1].val = WireValue(src.val)
                   /\ \A c \in ASN1Class :
                         Version_to_asn1_class(src.val, c) = enc.val
              ELSE /\ Denotes(enc.val.blocks[1].val, src.val)
                   /\ \A c \in ASN1Class :
                         CertificateSerialNumber_to_asn1_class(src.val, c)
                            = enc.val

C8_Witness ==
    /\ src.some
    /\ pc = "ready"
    /\ target = "Serial"
    /\ cls = "Private"
    /\ src.val = I64_MIN
    /\ IsUniversalInteger(enc.val.blocks[1])

\* the decoder the caller uses
Decoder(t, v) ==
    IF t = "Version" THEN Version_from_asn1(v)
    ELSE CertificateSerialNumber_from_asn1(v)

\* C9: on a non-empty input a successful decode returns as tail the input
\* without its first block, unmodified; the outcome depends on the first
\* block only; a failed decode returns neither value nor tail and consumes
\* nothing.
C9_ConsumesExactlyOne ==
    (Called /\ arg # <<>>)
        => /\ ret.tag = "Ok" =>
                 /\ ret.tail = AllButFirst(arg)
                 /\ Len(ret.tail) = Len(arg) - 1
                 /\ rest = ret.tail
           /\ LET alone == Decoder(target, <<arg[1]>>) IN
                 /\ alone.tag = ret.tag
                 /\ ret.tag = "Ok" => alone.val = ret.val
                 /\ ret.tag = "Err" => alone.err = ret.err
           /\ ret.tag # "Ok" =>
                 /\ DOMAIN ret \cap {"val", "tail"} = {}
                 /\ rest = arg
           /\ rest = SubSeq(input, Len(decoded) + 1, Len(input))

C9_Witness ==
    /\ Called
    /\ target = "Serial"
    /\ ret.tag = "Ok"
    /\ Len(arg) = 3
    /\ Len(ret.tail) = 2
    /\ ~IsUniversalInteger(ret.tail[1])

\* C10: a decode call on an empty block sequence returns an error value; it
\* does not abort.
C10_EmptyInputIsAnError ==
    (Called /\ arg = <<>>) => ret.tag = "Err"

====
